---- MODULE Spec2Model ----
(***************************************************************************)
(* certtail: the monitoring loop of main() in main.go.  One process tails  *)
(* one Certificate Transparency log: it creates a client, reads the        *)
(* initial tree head, and then on every tick polls the tree head, fetches  *)
(* the entries from its cursor (nextIndex) up to the tree size and walks   *)
(* the returned entries, advancing the cursor once per entry.              *)
(*                                                                         *)
(* The log client (GetSTH, GetEntries), the certificate parser and the     *)
(* ticker are outside the program: their results are inputs, drawn here    *)
(* from bounded sets.  The program installs no signal handler, so an       *)
(* interrupt ends the process wherever it is.                              *)
(***************************************************************************)
EXTENDS Integers, Sequences, FiniteSets

\* ------------------------------------------------------------------ bounds
\* Largest tree size a tree head reports under Spec.
MaxTree == 3
\* Most entries one GetEntries call returns.
MaxBatch == 2
\* How many entries beyond the requested half-open range [start, end) a
\* GetEntries call may return (the client library's end index is inclusive).
ExtraEntries == 1
\* Width of the machine words of the model: uint64/int64 scaled down to
\* Bits bits, with the same wrap-around and the same conversions.
Bits == 5

\* Most operators in the log list, and most logs an operator lists.
MaxOperators == 2
MaxLogs == 1
\* Largest tree size a tree head reports under StartupSpec.
MaxStartupTree == 1

TwoToBits == 2 ^ Bits
TreeSizes == 0..MaxTree
StartupTreeSizes == 0..MaxStartupTree

Min(a, b) == IF a <= b THEN a ELSE b

\* ------------------------------------------------------- integer conversions
\* int64(x) of an unsigned x: the same bits read as two's complement.
ToInt64(u) == IF u >= TwoToBits \div 2 THEN u - TwoToBits ELSE u

\* uint64(x) of a signed x: the same bits read as unsigned.
ToUint64(i) == i % TwoToBits

\* ------------------------------------------------------------------ entries
\* What the loop reads of a ct.LogEntry: whether X509Cert and Precert are
\* set, whether x509.ParseCertificate accepts X509Cert.Raw, and whether
\* Leaf.TimestampedEntry is set.
X509Entry       == [x509 |-> TRUE,  precert |-> FALSE, parses |-> TRUE,  hasTs |-> TRUE]
X509Unparsable  == [x509 |-> TRUE,  precert |-> FALSE, parses |-> FALSE, hasTs |-> TRUE]
X509NoTimestamp == [x509 |-> TRUE,  precert |-> FALSE, parses |-> TRUE,  hasTs |-> FALSE]
PrecertEntry    == [x509 |-> FALSE, precert |-> TRUE,  parses |-> FALSE, hasTs |-> TRUE]
UnknownEntry    == [x509 |-> FALSE, precert |-> FALSE, parses |-> FALSE, hasTs |-> TRUE]

EntryKinds == {X509Entry, X509Unparsable, X509NoTimestamp, PrecertEntry, UnknownEntry}

SeqsUpTo(S, k) == UNION {[1..n -> S] : n \in 0..k}

\* ------------------------------------------------------------- certificates
\* Most DNS subject-alternative names of a certificate.
MaxDns == 2

\* What the record printed for an entry reads of its parsed certificate: the
\* DNS subject-alternative names and, of the subject, the common name and
\* the organization ("" when absent).  A printed string is the sequence of
\* its pieces.
DnsNames == {"a.example", "b.example"}
CommonNames == {"", "foo", "a.example"}
Organizations == {"", "Acme"}
Certs == [dns : SeqsUpTo(DnsNames, MaxDns), cn : CommonNames,
          org : Organizations]

\* strings.Join(names, sep)
RECURSIVE Join(_, _)
Join(names, sep) ==
    IF names = <<>> THEN <<>>
    ELSE IF Len(names) = 1 THEN <<names[1]>>
         ELSE <<names[1], sep>> \o Join(Tail(names), sep)

\* Variant: the DNS names joined with ", ", else the common name.
SubjectFieldDnsOrCn(c) ==
    IF c.dns # <<>> THEN Join(c.dns, ", ")
    ELSE IF c.cn = "" THEN <<>> ELSE <<c.cn>>

\* cert.Subject.String(): the subject's attributes as a distinguished name,
\* the common name first.
SubjectField(c) ==
    LET cnPart == IF c.cn = "" THEN <<>> ELSE <<"CN=", c.cn>>
        orgPart == IF c.org = "" THEN <<>> ELSE <<"O=", c.org>>
    IN IF cnPart # <<>> /\ orgPart # <<>>
       THEN cnPart \o <<",">> \o orgPart
       ELSE cnPart \o orgPart

\* ----------------------------------------------------------------- log list
\* A log list is the sequence of its operators, each given by the number of
\* logs it lists; a LogInfo is named <<operator, log>>.
LogLists == SeqsUpTo(0..MaxLogs, MaxOperators)

\* Variant: the loop over the operators has no break, so the last operator
\* that lists a log wins.
RECURSIVE SelectLogInfoNoBreak(_)
SelectLogInfoNoBreak(list) ==
    IF list = <<>> THEN <<>>
    ELSE IF list[Len(list)] > 0 THEN <<Len(list), 1>>
         ELSE SelectLogInfoNoBreak(SubSeq(list, 1, Len(list) - 1))

\* for _, operator := range logList.Operators: Logs[0] of the first operator
\* with len(operator.Logs) > 0; <<>> when foundLog stays false.
RECURSIVE SelectFrom(_, _)
SelectFrom(list, o) ==
    IF o > Len(list) THEN <<>>
    ELSE IF list[o] > 0 THEN <<o, 1>>
         ELSE SelectFrom(list, o + 1)

SelectLogInfo(list) == SelectFrom(list, 1)

VARIABLES
    pc,          \* where main() is: "GetLogList", "NewClient", "InitialSTH",
                 \* "WaitingForTick", "Processing" (inside the range loop),
                 \* "Fatal", "Stopped"; under NameSpec, inside the loop body:
                 \* "Parse" (before x509.ParseCertificate), "Print"
    nextIndex,   \* the cursor (int64)
    entries,     \* the entries of the current batch not yet walked
    sigint,      \* an interrupt has been raised and not yet acted on
    tick,        \* what the latest tick did (history)
    lastFetch,   \* the latest GetEntries call of the loop (history)
    classified,  \* indices of the entries walked by the loop, in order (history)
    emitted,     \* indices of the entries a record was printed for (history)
    event,       \* outcome of the latest step of main() (history)
    initialSize, \* tree size of the initial tree head (history)
    allOk,       \* no poll and no fetch of the loop has failed (history)
    everPolled,  \* the loop has called GetSTH at least once (history)
    maxSeen,     \* largest tree size any tree head has reported (history)
    logList,     \* the log list: per operator, the number of logs it lists
    selected,    \* selectedLogInfo as <<operator, log>>, <<>> when none
    monitors,    \* the logs a client has been created for (history)
    cert,        \* the parsed certificate of the entry being printed
    line         \* the subject field of the record printed for it

vars == <<pc, nextIndex, entries, sigint, tick, lastFetch, classified, emitted,
          event, initialSize, allOk, everPolled, maxSeen, logList, selected,
          monitors, cert, line>>

\* No tree head seen yet.
NoneSeen == 0 - 1

Max(a, b) == IF a >= b THEN a ELSE b

\* Before any certificate is parsed or printed.
NoCert == [dns |-> <<>>, cn |-> "", org |-> ""]
NoLine == <<"-">>

\* The entries of a batch the loop prints a record for: X509 entries whose
\* certificate parses and whose leaf has a timestamp.
RECURSIVE CountGood(_)
CountGood(batch) ==
    IF batch = <<>> THEN 0
    ELSE (IF Head(batch).x509 /\ Head(batch).parses /\ Head(batch).hasTs
          THEN 1 ELSE 0) + CountGood(Tail(batch))

NoTick == [kind |-> "none", start |-> 0, size |-> 0, fetches |-> 0,
           returned |-> 0, records |-> 0, good |-> 0]
NoFetch == [issued |-> FALSE, start |-> 0, end |-> 0, ok |-> FALSE]

\* The values the variables take (MaxCursor bounds the cursor under Spec).
MaxCursor == MaxTree + ExtraEntries

TypeOK ==
    /\ pc \in {"GetLogList", "NewClient", "InitialSTH", "WaitingForTick",
               "Processing", "Fatal", "Stopped"}
    /\ nextIndex \in 0..MaxCursor
    /\ entries \in SeqsUpTo(EntryKinds, MaxBatch)
    /\ sigint \in BOOLEAN
    /\ tick \in [kind : {"none", "poll_error", "no_new", "fetch_error", "fetch_ok"},
                 start : 0..MaxCursor, size : TreeSizes, fetches : 0..1,
                 returned : 0..MaxBatch, records : 0..MaxBatch,
                 good : 0..MaxBatch]
    /\ lastFetch \in [issued : BOOLEAN, start : 0..MaxCursor,
                      end : 0..MaxTree, ok : BOOLEAN]
    /\ classified \in SeqsUpTo(0..MaxCursor, MaxCursor)
    /\ emitted \in SeqsUpTo(0..MaxCursor, MaxCursor)
    /\ initialSize \in TreeSizes
    /\ allOk \in BOOLEAN
    /\ everPolled \in BOOLEAN
    /\ maxSeen \in {NoneSeen} \cup TreeSizes
    /\ monitors \subseteq {selected}

\* ------------------------------------------------------------ the code's steps
\* Variant: the cursor starts at the beginning of the log.
InitialCursorZero(size) == 0

\* var nextIndex int64 = int64(sth.TreeSize)
InitialCursor(size) == ToInt64(size)

\* Variant: the comparison is strict, so an unchanged tree is fetched again.
NoNewEntriesStrict(size, idx) == size < ToUint64(idx)

\* currentSTH.TreeSize <= uint64(nextIndex)
NoNewEntries(size, idx) == size <= ToUint64(idx)

\* Variant: the cursor is not advanced inside the loop.
AdvanceCursorStuck(idx) == idx

\* Variant: the cursor is advanced by two per entry.
AdvanceCursorTwice(idx) == ToInt64(ToUint64(idx + 2))

\* nextIndex++
AdvanceCursor(idx) == ToInt64(ToUint64(idx + 1))

\* Variant: an X509 entry without a timestamp is printed all the same.
ClassifyDefaultTimestamp(e) ==
    IF e.x509
    THEN IF ~e.parses THEN "skip_parse" ELSE "emit"
    ELSE IF e.precert THEN "skip_precert" ELSE "skip_unknown"

\* Variant: a precertificate is printed like a certificate.
ClassifyPrecertPrinted(e) ==
    IF e.x509
    THEN IF ~e.parses THEN "skip_parse"
         ELSE IF e.hasTs THEN "emit" ELSE "skip_timestamp"
    ELSE IF e.precert THEN "emit" ELSE "skip_unknown"

\* The branches of the loop body for one entry.
Classify(e) ==
    IF e.x509
    THEN IF ~e.parses THEN "skip_parse"
         ELSE IF e.hasTs THEN "emit" ELSE "skip_timestamp"
    ELSE IF e.precert THEN "skip_precert" ELSE "skip_unknown"

SkipEvents == {"skip_parse", "skip_timestamp", "skip_precert", "skip_unknown"}

Init ==
    /\ pc = "NewClient"
    /\ nextIndex = 0
    /\ entries = <<>>
    /\ sigint = FALSE
    /\ tick = NoTick
    /\ lastFetch = NoFetch
    /\ classified = <<>>
    /\ emitted = <<>>
    /\ event = "none"
    /\ initialSize = 0
    /\ allOk = TRUE
    /\ everPolled = FALSE
    /\ maxSeen = NoneSeen
    /\ logList = <<1>>
    /\ selected = <<1, 1>>
    /\ monitors = {}
    /\ cert = NoCert
    /\ line = NoLine

\* The start of main(), before getLogList.
StartupInit ==
    /\ pc = "GetLogList"
    /\ nextIndex = 0
    /\ entries = <<>>
    /\ sigint = FALSE
    /\ tick = NoTick
    /\ lastFetch = NoFetch
    /\ classified = <<>>
    /\ emitted = <<>>
    /\ event = "none"
    /\ initialSize = 0
    /\ allOk = TRUE
    /\ everPolled = FALSE
    /\ maxSeen = NoneSeen
    /\ logList = <<>>
    /\ selected = <<>>
    /\ monitors = {}
    /\ cert = NoCert
    /\ line = NoLine

\* getLogList fails (request, status, body or JSON): log.Fatalf.
GetLogListError ==
    /\ pc = "GetLogList"
    /\ pc' = "Fatal"
    /\ event' = "log_list_error"
    /\ UNCHANGED <<nextIndex, entries, sigint, tick, lastFetch, classified,
                   emitted, initialSize, allOk, everPolled, maxSeen, logList,
                   selected, monitors, cert, line>>

\* getLogList returns `list` and the loop over its operators finds a log.
LogSelected(list) ==
    /\ pc = "GetLogList"
    /\ SelectLogInfo(list) # <<>>
    /\ logList' = list
    /\ selected' = SelectLogInfo(list)
    /\ pc' = "NewClient"
    /\ event' = "log_selected"
    /\ UNCHANGED <<nextIndex, entries, sigint, tick, lastFetch, classified,
                   emitted, initialSize, allOk, everPolled, maxSeen, monitors,
                   cert, line>>

\* Variant: without a log, main() goes on with the zero LogInfo.
NoLogsFoundContinue(list) ==
    /\ pc = "GetLogList"
    /\ SelectLogInfo(list) = <<>>
    /\ logList' = list
    /\ pc' = "NewClient"
    /\ event' = "no_logs"
    /\ UNCHANGED <<nextIndex, entries, sigint, tick, lastFetch, classified,
                   emitted, initialSize, allOk, everPolled, maxSeen, selected,
                   monitors, cert, line>>

\* getLogList returns `list` and no operator lists a log: log.Fatal.
NoLogsFound(list) ==
    /\ pc = "GetLogList"
    /\ SelectLogInfo(list) = <<>>
    /\ logList' = list
    /\ pc' = "Fatal"
    /\ event' = "no_logs"
    /\ UNCHANGED <<nextIndex, entries, sigint, tick, lastFetch, classified,
                   emitted, initialSize, allOk, everPolled, maxSeen, selected,
                   monitors, cert, line>>

\* client.New succeeds.
NewClientOk ==
    /\ pc = "NewClient"
    /\ pc' = "InitialSTH"
    /\ event' = "client_ok"
    /\ monitors' = monitors \cup {selected}
    /\ UNCHANGED <<logList, selected, cert, line, maxSeen, nextIndex, entries,
                   sigint, tick, lastFetch, classified, emitted, initialSize,
                   allOk, everPolled>>

\* client.New fails: log.Fatalf.
NewClientError ==
    /\ pc = "NewClient"
    /\ pc' = "Fatal"
    /\ event' = "client_error"
    /\ UNCHANGED <<logList, selected, cert, line, monitors, maxSeen,
                   nextIndex, entries, sigint, tick, lastFetch, classified,
                   emitted, initialSize, allOk, everPolled>>

\* The initial GetSTH succeeds with tree size `size`; the cursor starts there.
InitialSTHOk(size) ==
    /\ pc = "InitialSTH"
    /\ pc' = "WaitingForTick"
    /\ nextIndex' = InitialCursor(size)
    /\ initialSize' = size
    /\ event' = "initial_sth_ok"
    /\ maxSeen' = size
    /\ UNCHANGED <<logList, selected, cert, line, monitors, entries, sigint,
                   tick, lastFetch, classified, emitted, allOk, everPolled>>

\* Variant: a failed initial GetSTH is only logged and the loop is entered.
InitialSTHErrorContinue ==
    /\ pc = "InitialSTH"
    /\ pc' = "WaitingForTick"
    /\ event' = "initial_sth_error"
    /\ UNCHANGED <<logList, selected, cert, line, monitors, maxSeen,
                   nextIndex, entries, sigint, tick, lastFetch, classified,
                   emitted, initialSize, allOk, everPolled>>

\* The initial GetSTH fails: log.Fatalf.
InitialSTHError ==
    /\ pc = "InitialSTH"
    /\ pc' = "Fatal"
    /\ event' = "initial_sth_error"
    /\ UNCHANGED <<logList, selected, cert, line, monitors, maxSeen,
                   nextIndex, entries, sigint, tick, lastFetch, classified,
                   emitted, initialSize, allOk, everPolled>>

\* Variant: a failed poll is fatal (log.Fatalf in place of log.Printf).
TickPollErrorFatal ==
    /\ pc = "WaitingForTick"
    /\ pc' = "Fatal"
    /\ tick' = [kind |-> "poll_error", start |-> nextIndex, size |-> 0,
                fetches |-> 0, returned |-> 0, records |-> 0,
                good |-> 0]
    /\ event' = "poll_error"
    /\ allOk' = FALSE
    /\ everPolled' = TRUE
    /\ UNCHANGED <<logList, selected, cert, line, monitors, maxSeen,
                   nextIndex, entries, sigint, lastFetch, classified, emitted,
                   initialSize>>

\* A tick whose GetSTH fails: log and continue.
TickPollError ==
    /\ pc = "WaitingForTick"
    /\ tick' = [kind |-> "poll_error", start |-> nextIndex, size |-> 0,
                fetches |-> 0, returned |-> 0, records |-> 0,
                good |-> 0]
    /\ event' = "poll_error"
    /\ allOk' = FALSE
    /\ everPolled' = TRUE
    /\ UNCHANGED <<logList, selected, cert, line, monitors, maxSeen, pc,
                   nextIndex, entries, sigint, lastFetch, classified, emitted,
                   initialSize>>

\* Variant: a tree size below the cursor pulls the cursor back to it.
TickNoNewEntriesResync(size) ==
    /\ pc = "WaitingForTick"
    /\ NoNewEntries(size, nextIndex)
    /\ nextIndex' = ToInt64(size)
    /\ tick' = [kind |-> "no_new", start |-> nextIndex, size |-> size,
                fetches |-> 0, returned |-> 0, records |-> 0,
                good |-> 0]
    /\ event' = "no_new"
    /\ everPolled' = TRUE
    /\ maxSeen' = Max(maxSeen, size)
    /\ UNCHANGED <<logList, selected, cert, line, monitors, pc, entries,
                   sigint, lastFetch, classified, emitted, initialSize,
                   allOk>>

\* A tick whose GetSTH reports no tree size above the cursor: continue.
TickNoNewEntries(size) ==
    /\ pc = "WaitingForTick"
    /\ NoNewEntries(size, nextIndex)
    /\ tick' = [kind |-> "no_new", start |-> nextIndex, size |-> size,
                fetches |-> 0, returned |-> 0, records |-> 0,
                good |-> 0]
    /\ event' = "no_new"
    /\ everPolled' = TRUE
    /\ maxSeen' = Max(maxSeen, size)
    /\ UNCHANGED <<logList, selected, cert, line, monitors, pc, nextIndex,
                   entries, sigint, lastFetch, classified, emitted,
                   initialSize, allOk>>

\* Variant: a failed fetch moves the cursor to the polled tree size.
TickFetchErrorSkipsRange(size) ==
    /\ pc = "WaitingForTick"
    /\ ~NoNewEntries(size, nextIndex)
    /\ nextIndex' = ToInt64(size)
    /\ lastFetch' = [issued |-> TRUE, start |-> nextIndex,
                     end |-> ToInt64(size), ok |-> FALSE]
    /\ tick' = [kind |-> "fetch_error", start |-> nextIndex, size |-> size,
                fetches |-> 1, returned |-> 0, records |-> 0,
                good |-> 0]
    /\ event' = "fetch_error"
    /\ allOk' = FALSE
    /\ everPolled' = TRUE
    /\ maxSeen' = Max(maxSeen, size)
    /\ UNCHANGED <<logList, selected, cert, line, monitors, pc, entries,
                   sigint, classified, emitted, initialSize>>

\* A tick whose GetEntries(nextIndex, int64(size)) fails: log and continue.
TickFetchError(size) ==
    /\ pc = "WaitingForTick"
    /\ ~NoNewEntries(size, nextIndex)
    /\ lastFetch' = [issued |-> TRUE, start |-> nextIndex,
                     end |-> ToInt64(size), ok |-> FALSE]
    /\ tick' = [kind |-> "fetch_error", start |-> nextIndex, size |-> size,
                fetches |-> 1, returned |-> 0, records |-> 0,
                good |-> 0]
    /\ event' = "fetch_error"
    /\ allOk' = FALSE
    /\ everPolled' = TRUE
    /\ maxSeen' = Max(maxSeen, size)
    /\ UNCHANGED <<logList, selected, cert, line, monitors, pc, nextIndex,
                   entries, sigint, classified, emitted, initialSize>>

\* A tick whose GetEntries(nextIndex, int64(size)) returns `batch`: the range
\* loop starts (and is over at once when the batch is empty).
TickFetchOk(size, batch) ==
    /\ pc = "WaitingForTick"
    /\ ~NoNewEntries(size, nextIndex)
    /\ Len(batch) <= Min(MaxBatch, (ToInt64(size) - nextIndex) + ExtraEntries)
    /\ lastFetch' = [issued |-> TRUE, start |-> nextIndex,
                     end |-> ToInt64(size), ok |-> TRUE]
    /\ tick' = [kind |-> "fetch_ok", start |-> nextIndex, size |-> size,
                fetches |-> 1, returned |-> Len(batch), records |-> 0,
                good |-> CountGood(batch)]
    /\ entries' = batch
    /\ pc' = IF batch = <<>> THEN "WaitingForTick" ELSE "Processing"
    /\ event' = "fetch_ok"
    /\ everPolled' = TRUE
    /\ maxSeen' = Max(maxSeen, size)
    /\ UNCHANGED <<logList, selected, cert, line, monitors, nextIndex, sigint,
                   classified, emitted, initialSize, allOk>>

\* One iteration of the range loop: advance the cursor, then handle the entry.
ProcessEntry ==
    /\ pc = "Processing"
    /\ entries # <<>>
    /\ LET e == Head(entries)
           idx == AdvanceCursor(nextIndex)
           outcome == Classify(e)
       IN /\ nextIndex' = idx
          /\ classified' = Append(classified, idx - 1)
          /\ emitted' = IF outcome = "emit" THEN Append(emitted, idx - 1)
                        ELSE emitted
          /\ tick' = IF outcome = "emit"
                     THEN [tick EXCEPT !.records = @ + 1] ELSE tick
          /\ event' = outcome
    /\ entries' = Tail(entries)
    /\ pc' = IF Tail(entries) = <<>> THEN "WaitingForTick" ELSE "Processing"
    /\ UNCHANGED <<logList, selected, cert, line, monitors, maxSeen, sigint,
                   lastFetch, initialSize, allOk, everPolled>>

Running == pc \in {"GetLogList", "NewClient", "InitialSTH", "WaitingForTick",
                   "Processing"}

\* Ctrl+C: an interrupt is raised while the process runs.
Interrupt ==
    /\ Running
    /\ ~sigint
    /\ sigint' = TRUE
    /\ UNCHANGED <<logList, selected, cert, line, monitors, maxSeen, pc,
                   nextIndex, entries, tick, lastFetch, classified, emitted,
                   event, initialSize, allOk, everPolled>>

\* Variant: the interrupt is swallowed (as with signal.Ignore).
TerminateIgnored ==
    /\ Running
    /\ sigint
    /\ sigint' = FALSE
    /\ UNCHANGED <<logList, selected, cert, line, monitors, maxSeen, pc,
                   nextIndex, entries, tick, lastFetch, classified, emitted,
                   event, initialSize, allOk, everPolled>>

\* No handler is installed: the runtime ends the process, wherever main() is.
Terminate ==
    /\ Running
    /\ sigint
    /\ pc' = "Stopped"
    /\ sigint' = FALSE
    /\ event' = "terminated"
    /\ UNCHANGED <<logList, selected, cert, line, monitors, maxSeen,
                   nextIndex, entries, tick, lastFetch, classified, emitted,
                   initialSize, allOk, everPolled>>

Next ==
    \/ NewClientOk
    \/ NewClientError
    \/ \E size \in TreeSizes : InitialSTHOk(size)
    \/ InitialSTHError
    \/ TickPollError
    \/ \E size \in TreeSizes : TickNoNewEntries(size)
    \/ \E size \in TreeSizes : TickFetchError(size)
    \/ \E size \in TreeSizes, batch \in SeqsUpTo(EntryKinds, MaxBatch) :
           TickFetchOk(size, batch)
    \/ ProcessEntry
    \/ Interrupt
    \/ Terminate

Spec == Init /\ [][Next]_vars

\* The runtime acts on a raised interrupt.
FairSpec == Spec /\ WF_vars(Terminate)

\* The loop body at an X509 entry with a timestamp, before its certificate
\* is parsed.
NameInit ==
    /\ pc = "Parse"
    /\ nextIndex = 0
    /\ entries = <<X509Entry>>
    /\ sigint = FALSE
    /\ tick = NoTick
    /\ lastFetch = NoFetch
    /\ classified = <<>>
    /\ emitted = <<>>
    /\ event = "none"
    /\ initialSize = 0
    /\ allOk = TRUE
    /\ everPolled = FALSE
    /\ maxSeen = NoneSeen
    /\ logList = <<1>>
    /\ selected = <<1, 1>>
    /\ monitors = {<<1, 1>>}
    /\ cert = NoCert
    /\ line = NoLine

\* x509.ParseCertificate returns the certificate c of the entry.
ParseCertificate(c) ==
    /\ pc = "Parse"
    /\ Classify(Head(entries)) = "emit"
    /\ cert' = c
    /\ pc' = "Print"
    /\ UNCHANGED <<nextIndex, entries, sigint, tick, lastFetch, classified,
                   emitted, event, initialSize, allOk, everPolled, maxSeen,
                   logList, selected, monitors, line>>

\* fmt.Printf of the record: its subject field is cert.Subject.String();
\* the loop goes on to the next such entry.
PrintRecord ==
    /\ pc = "Print"
    /\ line' = SubjectField(cert)
    /\ pc' = "Parse"
    /\ UNCHANGED <<nextIndex, entries, sigint, tick, lastFetch, classified,
                   emitted, event, initialSize, allOk, everPolled, maxSeen,
                   logList, selected, monitors, cert>>

NameNext ==
    \/ \E c \in Certs : ParseCertificate(c)
    \/ PrintRecord

NameSpec == NameInit /\ [][NameNext]_vars

\* main() from its start, with any log list.
StartupNext ==
    \/ GetLogListError
    \/ \E list \in LogLists : LogSelected(list)
    \/ \E list \in LogLists : NoLogsFound(list)
    \/ NewClientOk
    \/ NewClientError
    \/ \E size \in StartupTreeSizes : InitialSTHOk(size)
    \/ InitialSTHError
    \/ TickPollError
    \/ \E size \in StartupTreeSizes : TickNoNewEntries(size)
    \/ \E size \in StartupTreeSizes : TickFetchError(size)
    \/ \E size \in StartupTreeSizes, batch \in SeqsUpTo(EntryKinds, MaxBatch) :
           TickFetchOk(size, batch)
    \/ ProcessEntry
    \/ Interrupt
    \/ Terminate

StartupSpec == StartupInit /\ [][StartupNext]_vars

\* The tree sizes around the limits of the unsigned and the signed word.
WideTreeSizes == {0, 1, TwoToBits \div 2 - 1, TwoToBits \div 2,
                  TwoToBits \div 2 + 1, TwoToBits - 1}

\* Most entries walked in a run of WideSpec.
MaxWideWalk == 3

\* main() with tree heads that report any unsigned tree size.
WideNext ==
    \/ NewClientOk
    \/ NewClientError
    \/ \E size \in WideTreeSizes : InitialSTHOk(size)
    \/ InitialSTHError
    \/ TickPollError
    \/ \E size \in WideTreeSizes : TickNoNewEntries(size)
    \/ \E size \in WideTreeSizes : TickFetchError(size)
    \/ \E size \in WideTreeSizes, batch \in SeqsUpTo(EntryKinds, MaxBatch) :
           /\ Len(classified) + Len(batch) <= MaxWideWalk
           /\ TickFetchOk(size, batch)
    \/ ProcessEntry
    \/ Interrupt
    \/ Terminate

WideSpec == Init /\ [][WideNext]_vars

\* The range loop, once entered, runs on.
LiveSpec == Spec /\ WF_vars(ProcessEntry)

\* ------------------------------------------------------------------ helpers
Range(s) == {s[i] : i \in 1..Len(s)}

InLoop == pc \in {"WaitingForTick", "Processing"}

\* An entry the loop prints nothing for.
Skipped(e) == ~e.x509 \/ ~e.parses \/ ~e.hasTs

\* The tree size reported by the latest successful poll (the initial one
\* included).
FinalTreeSize == IF tick.kind \in {"none", "poll_error"} THEN initialSize
                 ELSE tick.size

\* ------------------------------------------------------------------ claims

\* C1: once the loop runs, nextIndex never decreases; it changes only in an
\* iteration of the range loop, by one per entry, so that when the batch of a
\* successful fetch has been walked it has grown by exactly the number of
\* entries the fetch returned, and no other step (failed poll, no-op poll,
\* failed fetch, interrupt) changes it.
C1_MonotonicCursor ==
    [][(pc \in {"WaitingForTick", "Processing"}) =>
          /\ nextIndex' >= nextIndex
          /\ (nextIndex' # nextIndex =>
                 pc = "Processing" /\ nextIndex' = nextIndex + 1)
          /\ (tick'.kind = "fetch_ok" =>
                 nextIndex' = tick'.start + tick'.returned - Len(entries'))
          /\ (tick'.kind \in {"poll_error", "no_new", "fetch_error"} =>
                 nextIndex' = tick'.start)]_vars

\* C1 witness: after an earlier failure, a fetch that returned at least two
\* entries has been walked to its end and the cursor has grown by that number.
C1_Witness ==
    /\ pc = "WaitingForTick"
    /\ ~allOk
    /\ tick.kind = "fetch_ok"
    /\ tick.returned >= 2
    /\ entries = <<>>
    /\ nextIndex = tick.start + tick.returned

\* C2: no entry index is handed to the loop body more than once.
C2_NoReprocessing ==
    \A i, j \in 1..Len(classified) : i # j => classified[i] # classified[j]

\* C2 witness: entries have been walked in more than one tick, with a failed
\* poll or fetch and a skipped entry among the steps.
C2_Witness ==
    /\ ~allOk
    /\ Len(classified) >= 3
    /\ Len(emitted) < Len(classified)
    /\ tick.kind = "fetch_ok"
    /\ tick.start > initialSize
    /\ nextIndex > tick.start

\* C3 as claimed: with every poll and fetch successful, the processed indices
\* are exactly [initial tree size, tree size of the last poll).
C3_Original ==
    (allOk /\ pc = "WaitingForTick") =>
        Range(classified) = {i \in 0..(MaxTree + ExtraEntries) :
                                initialSize <= i /\ i < FinalTreeSize}

\* C3 amended: with every poll and fetch successful, the processed indices are
\* exactly [initial tree size, cursor) with none omitted; at the end of a tick
\* whose poll reported a size not below the cursor and whose fetch, if one was
\* issued, returned exactly the entries of the requested range, that is
\* [initial tree size, tree size of the last poll).
C3_NoGaps ==
    allOk =>
        /\ Range(classified) = {i \in 0..(MaxTree + ExtraEntries) :
                                   initialSize <= i /\ i < nextIndex}
        /\ Len(classified) = Cardinality(Range(classified))
        /\ ( /\ pc = "WaitingForTick"
             /\ \/ tick.kind = "none"
                \/ tick.kind = "no_new" /\ tick.size = tick.start
                \/ tick.kind = "fetch_ok"
                      /\ tick.returned = tick.size - tick.start
             => Range(classified) = {i \in 0..(MaxTree + ExtraEntries) :
                                       initialSize <= i /\ i < FinalTreeSize} )

\* C3 witness: two successful ticks with exact fetches have brought the cursor
\* to the tree size of the last poll.
C3_Witness ==
    /\ allOk
    /\ pc = "WaitingForTick"
    /\ tick.kind = "fetch_ok"
    /\ tick.returned = tick.size - tick.start
    /\ tick.start > initialSize
    /\ Len(classified) >= 3

\* C4: a tick whose poll reports a tree size at or below the cursor issues no
\* fetch, prints no record and leaves the cursor (and everything the loop
\* has processed) as it was.
C4_NoOpPoll ==
    /\ [](tick.kind \in {"no_new", "fetch_error", "fetch_ok"}
             /\ tick.size <= tick.start
          => /\ tick.fetches = 0
             /\ tick.returned = 0
             /\ tick.records = 0
             /\ nextIndex = tick.start
             /\ entries = <<>>)
    /\ [][(pc = "WaitingForTick" /\ tick' # tick /\ tick'.kind # "poll_error"
             /\ tick'.size <= nextIndex)
          => /\ nextIndex' = nextIndex
             /\ lastFetch' = lastFetch
             /\ classified' = classified
             /\ emitted' = emitted
             /\ pc' = "WaitingForTick"]_vars

\* C4 witness: after entries have been processed, a poll reported a smaller
\* tree and nothing happened.
C4_Witness ==
    /\ tick.kind = "no_new"
    /\ tick.size < nextIndex
    /\ nextIndex > initialSize
    /\ emitted # <<>>

\* C5: an iteration of the range loop over a skipped entry (precertificate,
\* unknown type, unparsable X509, X509 without timestamp) prints no record
\* and advances the cursor by exactly one; every index walked lies below the
\* cursor, where every later fetch starts.
C5_SkipSemantics ==
    /\ [][(classified' # classified /\ Skipped(Head(entries)))
          => /\ emitted' = emitted
             /\ tick'.records = tick.records
             /\ nextIndex' = nextIndex + 1
             /\ classified' = Append(classified, nextIndex)]_vars
    /\ [](\A i \in 1..Len(classified) : classified[i] < nextIndex)
    /\ [][lastFetch' # lastFetch => lastFetch'.start = nextIndex]_vars

\* C5 witness: every kind of skipped entry has been walked, no record
\* printed, and a later fetch started past them.
C5_Witness ==
    /\ event \in SkipEvents
    /\ Len(classified) >= 3
    /\ emitted = <<>>
    /\ lastFetch.start > initialSize

\* C6: a tick that fails in its poll or in its fetch leaves the cursor where
\* it was and prints no record, and the fetch that follows a failed fetch
\* starts at the index the failed one started at.
C6_TransientFailure ==
    /\ [](tick.kind \in {"poll_error", "fetch_error"}
          => /\ nextIndex = tick.start
             /\ tick.records = 0
             /\ tick.returned = 0
             /\ entries = <<>>)
    /\ [][(pc = "WaitingForTick"
             /\ tick'.kind \in {"poll_error", "fetch_error"})
          => /\ nextIndex' = nextIndex
             /\ emitted' = emitted
             /\ classified' = classified
             /\ pc' \in {"WaitingForTick", "Stopped"}]_vars
    /\ [][(lastFetch.issued /\ ~lastFetch.ok /\ tick' # tick
             /\ tick'.fetches = 1)
          => /\ lastFetch'.issued
             /\ lastFetch'.start = lastFetch.start]_vars

\* C6 witness: after entries were processed and printed a fetch failed, and
\* the cursor still stands at the index that fetch started at.
C6_Witness ==
    /\ pc = "WaitingForTick"
    /\ tick.kind = "fetch_error"
    /\ lastFetch.issued
    /\ ~lastFetch.ok
    /\ lastFetch.start = nextIndex
    /\ nextIndex > initialSize
    /\ emitted # <<>>

\* C7: in the loop, a failed poll, a failed fetch or a skipped entry never
\* ends the monitor: after a failed poll or fetch it waits for the next tick,
\* after a skipped entry it goes on with the batch or waits for the next
\* tick; the fatal state is entered from the startup steps only.
C7_FailuresNotFatal ==
    /\ (event \in {"poll_error", "fetch_error"} => pc = "WaitingForTick")
    /\ (event \in SkipEvents =>
           /\ pc \in {"WaitingForTick", "Processing"}
           /\ (pc = "Processing" <=> entries # <<>>))
    /\ (pc = "Fatal" => event \in {"client_error", "initial_sth_error"})
    /\ (pc = "Stopped" => event = "terminated")

\* C7 witness: the loop goes on after a failed poll or fetch and a skipped
\* entry that was the last of its batch.
C7_Witness ==
    /\ ~allOk
    /\ event \in SkipEvents
    /\ pc = "WaitingForTick"
    /\ Len(classified) >= 2

\* C8: a failure of client.New or of the initial GetSTH ends the monitor for
\* good, and a monitor ended so has never polled in the loop, fetched,
\* walked an entry or printed a record.
C8_StartupFailureTerminal ==
    /\ [](event \in {"client_error", "initial_sth_error"} => pc = "Fatal")
    /\ [](pc = "Fatal"
          => /\ ~everPolled
             /\ tick = NoTick
             /\ lastFetch = NoFetch
             /\ classified = <<>>
             /\ emitted = <<>>
             /\ entries = <<>>)
    /\ [][pc = "Fatal" => pc' = "Fatal"]_vars

\* C8 witness: the initial GetSTH failed after the client was created.
C8_Witness ==
    /\ pc = "Fatal"
    /\ event = "initial_sth_error"

\* C9: the cursor starts at the tree size of the initial tree head, and no
\* index below that size is ever requested, walked or printed.
C9_NoRetroactive ==
    /\ (event = "initial_sth_ok" => nextIndex = initialSize)
    /\ (pc \in {"WaitingForTick", "Processing", "Stopped"} /\ everPolled
          => nextIndex >= initialSize)
    /\ (lastFetch.issued => lastFetch.start >= initialSize)
    /\ \A i \in 1..Len(classified) : classified[i] >= initialSize
    /\ \A i \in 1..Len(emitted) : emitted[i] >= initialSize

\* C9 witness: with entries already in the log at the start, the first entry
\* fetched and printed is the one at the initial tree size.
C9_Witness ==
    /\ initialSize >= 2
    /\ lastFetch.issued
    /\ lastFetch.start = initialSize
    /\ emitted # <<>>
    /\ emitted[1] = initialSize

C11_Original ==
    (pc = "Stopped" /\ tick.kind = "fetch_ok")
        => /\ entries = <<>>
           /\ Len(classified) >= tick.returned
           /\ nextIndex = tick.start + tick.returned

\* C15: of the entries a successful fetch returned, exactly the X509 entries
\* whose certificate parses and whose leaf has a timestamp get a record, one
\* each: while the batch is walked the records printed so far plus the
\* printable entries still to come make up the printable entries returned,
\* and when the batch is done the records equal them and the cursor has
\* moved by the number of entries returned.
C15_RecordsPerFetch ==
    /\ (tick.kind = "fetch_ok" =>
           /\ tick.records + CountGood(entries) = tick.good
           /\ tick.good <= tick.returned)
    /\ (tick.kind = "fetch_ok" /\ pc = "WaitingForTick" =>
           /\ tick.records = tick.good
           /\ nextIndex = tick.start + tick.returned)
    /\ (tick.kind # "fetch_ok" => tick.records = 0)
    /\ Len(emitted) <= Len(classified)

\* C15 witness: a fetch returned two X509 entries with timestamps; two
\* records were printed and the cursor moved by two.
C15_Witness ==
    /\ pc = "WaitingForTick"
    /\ tick.kind = "fetch_ok"
    /\ tick.returned = 2
    /\ tick.good = 2
    /\ tick.records = 2
    /\ nextIndex = tick.start + 2

\* C16: the indices walked by the loop over the monitor's lifetime are
\* strictly increasing, each iteration walks the index the cursor stood at
\* and leaves the cursor above it, and the records are printed in the same
\* increasing order, each for an index that was walked.
C16_Sequential ==
    /\ [](\A i \in 1..(Len(classified) - 1) : classified[i] < classified[i + 1])
    /\ [](\A i \in 1..(Len(emitted) - 1) : emitted[i] < emitted[i + 1])
    /\ [](Range(emitted) \subseteq Range(classified))
    /\ [][classified' # classified
          => /\ classified' = Append(classified, nextIndex)
             /\ nextIndex' > nextIndex
             /\ emitted' \in {emitted, Append(emitted, nextIndex)}]_vars

\* C16 witness: entries of two ticks have been walked and two records
\* printed, with a skipped entry in between or around them.
C16_Witness ==
    /\ Len(classified) >= 3
    /\ Len(emitted) >= 2
    /\ Len(emitted) < Len(classified)
    /\ tick.start > initialSize

\* C17: every GetEntries call is made from the wait, with the cursor as its
\* start and the tree size polled in the same tick as its end, start below
\* end, and a tick makes at most one call.
C17_FetchRange ==
    /\ [](tick.fetches <= 1)
    /\ [](lastFetch.issued => lastFetch.start < lastFetch.end)
    /\ [](tick.fetches = 1 =>
            /\ lastFetch.issued
            /\ lastFetch.start = tick.start
            /\ lastFetch.end = tick.size)
    /\ [][lastFetch' # lastFetch
          => /\ pc = "WaitingForTick"
             /\ lastFetch'.start = nextIndex
             /\ lastFetch'.end = tick'.size
             /\ tick'.fetches = 1]_vars

\* C17 witness: after entries were processed, a later tick fetched from the
\* advanced cursor up to a larger polled size.
C17_Witness ==
    /\ lastFetch.issued
    /\ lastFetch.start > initialSize
    /\ lastFetch.end = tick.size
    /\ lastFetch.end > lastFetch.start + 1
    /\ classified # <<>>

\* C18 as claimed: the cursor never exceeds the largest tree size a tree
\* head has reported so far.
C18_Original ==
    maxSeen # NoneSeen => nextIndex <= maxSeen

\* A tick whose poll reports tree size S and whose fetch, if it makes one,
\* succeeds with at least one entry.
StableTick(S) ==
    \/ TickNoNewEntries(S)
    \/ \E batch \in SeqsUpTo(EntryKinds, MaxBatch) :
           batch # <<>> /\ TickFetchOk(S, batch)

\* Every tick polls successfully and reports tree size S, and a fetch it
\* makes succeeds with at least one entry.
StableOk(S) ==
    tick' # tick =>
        /\ tick'.kind \in {"no_new", "fetch_ok"}
        /\ tick'.size = S
        /\ (tick'.kind = "fetch_ok" => tick'.returned >= 1)

\* C20 as claimed: when the log has stopped growing at tree size S (no tree
\* head ever reports more), the monitor stays in its loop, ticks keep firing
\* and from some point on every poll and fetch succeeds, each fetch with at
\* least one entry, then the cursor eventually equals S and stays there.
C20_Original ==
    \A S \in TreeSizes :
        ( /\ [](maxSeen <= S)
          /\ <>[]InLoop
          /\ <>[][StableOk(S)]_vars
          /\ WF_vars(StableTick(S)) )
            => <>[](nextIndex = S)

\* C19 as claimed: whatever unsigned tree size a tree head reports, the
\* signed cursor set from the initial one equals it and is not negative, the
\* signed end index of a fetch equals the polled size and is not negative,
\* and the loop finds no new entries exactly when the polled size is at most
\* the cursor as a number.
C19_Original ==
    /\ (event = "initial_sth_ok" =>
           nextIndex >= 0 /\ nextIndex = initialSize)
    /\ (tick.fetches = 1 =>
           lastFetch.end >= 0 /\ lastFetch.end = tick.size)
    /\ (tick.kind \in {"no_new", "fetch_error", "fetch_ok"} =>
           (tick.kind = "no_new" <=> tick.size <= tick.start))

\* The LogInfo values of a log list.
Sources(list) ==
    {<<o, l>> : o \in 1..Len(list), l \in 1..MaxLogs} \ 
        {src \in (1..Len(list)) \X (1..MaxLogs) : src[2] > list[src[1]]}

\* The first log of the first operator that lists a log.
FirstSource(list) ==
    CHOOSE src \in Sources(list) :
        src[2] = 1 /\ \A other \in Sources(list) : src[1] <= other[1]

ClientExists == pc \in {"InitialSTH", "WaitingForTick", "Processing"}

C13_NoLogsIsError ==
    /\ [](Sources(logList) = {}
          => /\ pc \in {"GetLogList", "Fatal", "Stopped"}
             /\ selected = <<>>
             /\ monitors = {}
             /\ maxSeen = NoneSeen
             /\ ~everPolled
             /\ tick = NoTick
             /\ lastFetch = NoFetch
             /\ classified = <<>>
             /\ emitted = <<>>)
    /\ [](event = "no_logs" => pc = "Fatal" /\ Sources(logList) = {})
    /\ [][(pc = "GetLogList" /\ pc' \notin {"GetLogList", "Stopped"}
             /\ event' # "log_list_error" /\ Sources(logList') = {})
          => pc' = "Fatal" /\ event' = "no_logs"]_vars
    /\ [][pc = "Fatal" => pc' = "Fatal"]_vars

\* C13 witness: the list has operators, none of them lists a log, and
\* main() has ended with the error.
C13_Witness ==
    /\ pc = "Fatal"
    /\ event = "no_logs"
    /\ Len(logList) = 2
    /\ Sources(logList) = {}

\* A record has just been printed for the certificate in cert.
Printed == pc = "Parse" /\ line # NoLine

====
